---- MODULE Spec2Model ----
(***************************************************************************)
(* Webhook reconciliation of the school-payments backend:                  *)
(*   WebhooksService  (src/src/webhooks/webhooks.service.ts)               *)
(*   payment-status utils (src/src/orders/orders.service.ts, 394-451)      *)
(*   PaymentsService  (src/src/payments/payments.service.ts)               *)
(* The persistent store holds three collections: orders, order statuses    *)
(* (the PaymentRecords) and webhook logs (the ledger).  Every await on a   *)
(* store operation is one step of a handler; a store operation may fail,   *)
(* in which case it has no effect and throws.                              *)
(***************************************************************************)
EXTENDS Integers, Sequences, FiniteSets, TLC

\* ---------------------------------------------------------------- bounds
MaxLedger == 2
NumProcs == 2
MaxDocs == 2

Procs == 1..NumProcs

\* ------------------------------------------------- loosely typed JS values
\* An amount field of a payload: absent, a number, a numeric string or a
\* non-empty string that does not parse as a number.
Undef == [t |-> "undef", v |-> 0]
Num(n) == [t |-> "num", v |-> n]
Str(n) == [t |-> "str", v |-> n]
BadStr == [t |-> "bad", v |-> 0]

\* JS truthiness: a non-empty string is truthy, the number 0 and undefined
\* are falsy.
Truthy(x) == x.t \in {"str", "bad"} \/ (x.t = "num" /\ x.v # 0)

Or(a, b) == IF Truthy(a) THEN a ELSE b

OrS(a, b) == IF a # "" THEN a ELSE b

parseAmount(amount) ==
  IF amount.t = "num" THEN amount.v
  ELSE IF amount.t = "str" THEN amount.v
  ELSE 0

\* Mongoose casts a value written to a Number path; a non-numeric string
\* raises a CastError.
CanCastNumber(x) == x.t # "bad"

CastNumber(x) == IF x.t \in {"num", "str"} THEN x.v ELSE 0

\* Mongoose casts a value written to an ObjectId path; only a syntactically
\* valid identifier (or an absent value) is accepted.
IsValidObjectId(ref) == ref \in {"oid_1", "oid_x"}

CanCastObjectId(ref) == ref = "" \/ IsValidObjectId(ref)

\* ------------------------------------------------------------ status lattice
Terminal == {"success", "failed", "cancelled"}

PaymentStatus == Terminal \cup {"pending"}

\* String.prototype.toUpperCase on the status strings of the model; a string
\* without lower-case letters is returned as it is.
toUpperCase(s) ==
  CASE s \in {"success", "Success"} -> "SUCCESS"
    [] s = "completed" -> "COMPLETED"
    [] s \in {"paid", "Paid"} -> "PAID"
    [] s = "pending" -> "PENDING"
    [] s \in {"failed", "Failed"} -> "FAILED"
    [] s = "declined" -> "DECLINED"
    [] s = "error" -> "ERROR"
    [] s = "cancelled" -> "CANCELLED"
    [] s = "canceled" -> "CANCELED"
    [] s = "user_dropped" -> "USER_DROPPED"
    [] s = "refunded" -> "REFUNDED"
    [] s = "unknown" -> "UNKNOWN"
    [] OTHER -> s

\* A mapper that compares the raw string without upper-casing it.
mapGatewayStatusCaseSensitive(gatewayStatus, captureStatus) ==
  IF gatewayStatus = "" THEN "pending"
  ELSE
    CASE gatewayStatus \in {"SUCCESS", "COMPLETED", "PAID"} -> "success"
      [] gatewayStatus \in {"FAILED", "DECLINED", "ERROR"} -> "failed"
      [] gatewayStatus \in {"USER_DROPPED", "CANCELLED", "CANCELED"} -> "cancelled"
      [] OTHER -> "pending"

\* A mapper that does not recognise the spelling it returns for a
\* cancellation.
mapGatewayStatusOneSpelling(gatewayStatus, captureStatus) ==
  IF gatewayStatus = "" THEN "pending"
  ELSE LET normalized == toUpperCase(gatewayStatus) IN
    CASE normalized \in {"SUCCESS", "COMPLETED", "PAID"} -> "success"
      [] normalized \in {"FAILED", "DECLINED", "ERROR"} -> "failed"
      [] normalized \in {"USER_DROPPED", "CANCELED"} -> "cancelled"
      [] OTHER -> "pending"

mapGatewayStatus(gatewayStatus, captureStatus) ==
  IF gatewayStatus = "" THEN "pending"
  ELSE LET normalized == toUpperCase(gatewayStatus) IN
    CASE normalized \in {"SUCCESS", "COMPLETED", "PAID"} -> "success"
      [] normalized \in {"FAILED", "DECLINED", "ERROR"} -> "failed"
      [] normalized \in {"USER_DROPPED", "CANCELLED", "CANCELED"} -> "cancelled"
      [] OTHER -> "pending"

\* The private mapper of PaymentsService: SUCCESS with a pending capture
\* maps to pending.
PaymentsMapGatewayStatus(gatewayStatus, captureStatusRaw) ==
  IF gatewayStatus = "" THEN "pending"
  ELSE LET normalized == toUpperCase(gatewayStatus)
           capture == toUpperCase(captureStatusRaw) IN
    IF normalized = "SUCCESS" /\ capture = "PENDING" THEN "pending"
    ELSE mapGatewayStatus(gatewayStatus, captureStatusRaw)

\* A guard that only refuses a regression to pending.
shouldUpdateStatusPendingOnly(existing, incoming) ==
  IF existing = "" THEN TRUE
  ELSE IF existing \in Terminal /\ incoming = "pending" THEN FALSE
  ELSE TRUE

\* A guard that lets a terminal record be rewritten with its own status.
shouldUpdateStatusAllowSame(existing, incoming) ==
  IF existing = "" THEN TRUE
  ELSE IF existing \in Terminal THEN incoming = existing
  ELSE TRUE

\* A guard that admits every incoming status.
shouldUpdateStatusAlways(existing, incoming) == TRUE

shouldUpdateStatus(existing, incoming) ==
  IF existing = "" THEN TRUE
  ELSE IF existing \in Terminal THEN FALSE
  ELSE TRUE

\* ------------------------------------------------------------------ payloads
NoData == [present |-> FALSE, order_id |-> "", payment_status |-> "",
           capture_status |-> "", payment_mode |-> "", payment_method |-> "",
           order_amount |-> Undef, payment_amount |-> Undef]

NoOrderInfoField == [present |-> FALSE, order_id |-> "", status |-> "",
                     capture_status |-> "", payment_mode |-> "",
                     payment_method |-> "",
                     order_amount |-> Undef, transaction_amount |-> Undef,
                     amount |-> Undef]

\* The body {} : none of the known shapes.
EmptyPayload == [data |-> NoData, order_info |-> NoOrderInfoField,
                 order_id |-> "", collect_request_id |-> "", status |-> "",
                 payment_mode |-> "", payment_method |-> "",
                 amount |-> Undef,
                 order_amount |-> Undef, transaction_amount |-> Undef]

\* Shape A ("nested data", Cashfree)
ShapeA(ref, st, amt, mode) ==
  [EmptyPayload EXCEPT !.data = [NoData EXCEPT !.present = TRUE,
                                                !.order_id = ref,
                                                !.payment_status = st,
                                                !.payment_mode = mode],
                       !.amount = amt]

\* Shape B ("flat legacy")
ShapeB(ref, st, amt, mode) ==
  [EmptyPayload EXCEPT !.order_id = ref, !.status = st, !.amount = amt,
                       !.payment_mode = mode]

\* Shape C ("order_info envelope")
ShapeC(ref, st, amt, mode) ==
  [EmptyPayload EXCEPT !.order_info = [NoOrderInfoField EXCEPT
                                         !.present = TRUE,
                                         !.order_id = ref,
                                         !.status = st,
                                         !.order_amount = amt,
                                         !.payment_mode = mode]]

\* The webhook bodies the gateway sends in the model.
Payloads ==
  { ShapeA("ORD_1", "SUCCESS", Str(500), "upi"),
    ShapeB("CR_1", "PENDING", Undef, ""),
    ShapeC("ORD_1", "user_dropped", Num(200), "card"),
    ShapeB("NOPE", "SUCCESS", Num(100), ""),
    EmptyPayload }

\* ---- the inputs of the normalizer: one dimension of a payload varies at a time
RawStatuses ==
  {"", "SUCCESS", "success", "Success", "COMPLETED", "completed", "PAID",
   "paid", "Paid", "FAILED", "failed", "Failed", "DECLINED", "declined",
   "ERROR", "error", "USER_DROPPED", "user_dropped", "CANCELLED", "cancelled",
   "CANCELED", "canceled", "PENDING", "pending", "REFUNDED", "refunded",
   "unknown"}

Captures == {"", "PENDING"}

\* Every raw status with every capture sub-status, in each shape.
StatusPayloads ==
  {[ShapeA("ORD_1", st, Str(500), "upi") EXCEPT !.data.capture_status = cap] :
     st \in RawStatuses, cap \in Captures}
  \cup {ShapeB("ORD_1", st, Num(450), "") : st \in RawStatuses}
  \cup {[ShapeC("ORD_1", st, Num(450), "card") EXCEPT
           !.order_info.capture_status = cap] :
          st \in RawStatuses, cap \in Captures}

AmountValues == {Undef, Num(0), Num(0 - 50), Num(450), Str(500), BadStr}

\* The amount fields each shape is read from, with every pair of values.
AmountPayloads ==
  {[ShapeA("ORD_1", "SUCCESS", a, "upi") EXCEPT !.order_amount = b,
                                                !.data.order_amount = d] :
     a \in AmountValues, b \in AmountValues, d \in {Undef, Str(700)}}
  \cup {[ShapeB("ORD_1", "SUCCESS", a, "") EXCEPT !.order_amount = b] :
          a \in AmountValues, b \in AmountValues}
  \cup {[ShapeC("ORD_1", "SUCCESS", a, "card") EXCEPT !.order_info.amount = b] :
          a \in AmountValues, b \in AmountValues}

\* Every combination of the four fields the classification looks at.
PresencePayloads ==
  {[EmptyPayload EXCEPT
      !.data = IF d THEN [NoData EXCEPT !.present = TRUE, !.order_id = "ORD_1",
                                        !.payment_status = "SUCCESS"]
               ELSE NoData,
      !.order_id = IF o THEN "ORD_1" ELSE "",
      !.collect_request_id = IF c THEN "CR_1" ELSE "",
      !.status = "FAILED",
      !.order_info = IF i THEN [NoOrderInfoField EXCEPT !.present = TRUE,
                                  !.order_id = "ORD_1", !.status = "PENDING"]
                     ELSE NoOrderInfoField] :
     d \in BOOLEAN, o \in BOOLEAN, c \in BOOLEAN, i \in BOOLEAN}

\* One payment described in each shape: reference, raw status, amount, mode.
Contents ==
  {[ref |-> "ORD_1", st |-> "SUCCESS", amt |-> Str(500), mode |-> "upi"],
   [ref |-> "CR_1", st |-> "failed", amt |-> Num(450), mode |-> "card"]}

\* Shape A: status, amount and mode under data.
NestedData(c) ==
  [EmptyPayload EXCEPT !.data = [NoData EXCEPT !.present = TRUE,
                                   !.order_id = c.ref,
                                   !.payment_status = c.st,
                                   !.order_amount = c.amt,
                                   !.payment_mode = c.mode]]

\* Shape B: top-level order_id, status, amount.
FlatLegacy(c) == ShapeB(c.ref, c.st, c.amt, c.mode)

\* Shape C: the same fields one level under order_info.
Envelope(c) ==
  [EmptyPayload EXCEPT !.order_info = [NoOrderInfoField EXCEPT
                                         !.present = TRUE,
                                         !.order_id = c.ref,
                                         !.status = c.st,
                                         !.amount = c.amt,
                                         !.payment_mode = c.mode]]

ModeValues == {"", "upi"}

\* Every combination of the mode fields each shape can carry.
ModePayloads ==
  {[ShapeA("ORD_1", "SUCCESS", Str(500), "") EXCEPT
      !.payment_mode = m, !.payment_method = pm, !.data.payment_mode = dm,
      !.data.payment_method = dpm] :
     m \in ModeValues, pm \in {"", "netbanking"}, dm \in {"", "card"},
     dpm \in {"", "wallet"}}
  \cup {[ShapeB("ORD_1", "SUCCESS", Num(450), m) EXCEPT !.payment_method = pm] :
          m \in ModeValues, pm \in {"", "netbanking"}}
  \cup {[ShapeC("ORD_1", "SUCCESS", Num(450), m) EXCEPT
           !.order_info.payment_method = pm, !.payment_mode = rm] :
          m \in ModeValues, pm \in {"", "netbanking"}, rm \in {"", "cash"}}

ContentPayloads ==
  UNION {{NestedData(c), FlatLegacy(c), Envelope(c)} : c \in Contents}

\* A validation that does not know the order_info envelope.
validateWebhookPayloadNoInfo(payload) ==
  payload.data.present \/ payload.order_id # "" \/
  payload.collect_request_id # ""

validateWebhookPayload(payload) ==
  payload.data.present \/ payload.order_id # "" \/
  payload.collect_request_id # "" \/ payload.order_info.present

\* An extraction that looks at the nested mode before the root-level one.
extractPaymentModeNestedFirst(data, fallback) ==
  OrS(data.data.payment_mode,
  OrS(data.payment_mode,
  OrS(data.payment_method,
  OrS(data.data.payment_method,
  OrS(fallback.payment_mode,
  OrS(fallback.payment_method, "unknown"))))))

\* extractPaymentMode(data, fallback); an absent data.data or fallback is
\* passed as NoData, whose fields are all falsy.
extractPaymentMode(data, fallback) ==
  OrS(data.payment_mode,
  OrS(data.data.payment_mode,
  OrS(data.payment_method,
  OrS(data.data.payment_method,
  OrS(fallback.payment_mode,
  OrS(fallback.payment_method, "unknown"))))))

NoOrderInfo == [order_id |-> "", order_amount |-> Undef,
                transaction_amount |-> Undef, status |-> "",
                capture_status |-> "", gateway_status |-> "",
                payment_mode |-> "", payment_method |-> "", gateway |-> ""]

\* The event processWebhook builds from the payload (lines 51-92).
ParseWebhook(payload) ==
  IF payload.data.present THEN
    [order_id |-> OrS(payload.data.order_id, payload.collect_request_id),
     order_amount |-> Num(parseAmount(Or(payload.amount, payload.order_amount))),
     transaction_amount |->
       Num(parseAmount(Or(payload.amount, payload.transaction_amount))),
     status |-> mapGatewayStatus(payload.data.payment_status,
                                 payload.data.capture_status),
     capture_status |-> "",
     gateway_status |-> OrS(payload.data.payment_status, "N/A"),
     payment_mode |-> extractPaymentMode(payload, payload.data),
     payment_method |-> "",
     gateway |-> "Cashfree"]
  ELSE IF payload.collect_request_id # "" \/ payload.order_id # "" THEN
    [order_id |-> OrS(payload.collect_request_id, payload.order_id),
     order_amount |-> Num(parseAmount(Or(payload.amount, payload.order_amount))),
     transaction_amount |->
       Num(parseAmount(Or(payload.amount, payload.transaction_amount))),
     status |-> mapGatewayStatus(payload.status, ""),
     capture_status |-> "",
     gateway_status |-> "",
     payment_mode |-> extractPaymentMode(payload, NoData),
     payment_method |-> "",
     gateway |-> "PhonePe"]
  ELSE
    [order_id |-> payload.order_info.order_id,
     order_amount |-> Num(parseAmount(Or(payload.order_info.order_amount,
                                         payload.order_info.amount))),
     transaction_amount |->
       Num(parseAmount(Or(payload.order_info.transaction_amount,
                          payload.order_info.amount))),
     status |-> mapGatewayStatus(payload.order_info.status,
                                 payload.order_info.capture_status),
     capture_status |-> payload.order_info.capture_status,
     gateway_status |-> "",
     payment_mode |-> payload.order_info.payment_mode,
     payment_method |-> payload.order_info.payment_method,
     gateway |-> ""]

\* The event retryFailedWebhooks builds from a stored payload (lines 362-398).
ParseRetry(payload) ==
  IF payload.data.present THEN
    [order_id |-> payload.data.order_id,
     order_amount |-> Num(parseAmount(Or(payload.data.order_amount,
                                         payload.amount))),
     transaction_amount |-> Num(parseAmount(Or(payload.data.payment_amount,
                                               payload.data.order_amount))),
     status |-> mapGatewayStatus(payload.data.payment_status,
                                 payload.data.capture_status),
     capture_status |-> "",
     gateway_status |-> OrS(payload.data.payment_status, "N/A"),
     payment_mode |-> extractPaymentMode(payload, payload.data),
     payment_method |-> "",
     gateway |-> "Cashfree"]
  ELSE IF payload.order_info.present THEN
    [order_id |-> payload.order_info.order_id,
     order_amount |-> payload.order_info.order_amount,
     transaction_amount |-> payload.order_info.transaction_amount,
     status |-> mapGatewayStatus(payload.order_info.status,
                                 payload.order_info.capture_status),
     capture_status |-> payload.order_info.capture_status,
     gateway_status |-> "",
     payment_mode |-> payload.order_info.payment_mode,
     payment_method |-> payload.order_info.payment_method,
     gateway |-> ""]
  ELSE
    [order_id |-> OrS(payload.collect_request_id, payload.order_id),
     order_amount |-> Num(parseAmount(Or(payload.amount, payload.order_amount))),
     transaction_amount |->
       Num(parseAmount(Or(payload.transaction_amount, payload.amount))),
     status |-> mapGatewayStatus(payload.status, ""),
     capture_status |-> "",
     gateway_status |-> "",
     payment_mode |-> extractPaymentMode(payload, NoData),
     payment_method |-> "",
     gateway |-> "PhonePe"]

\* --------------------------------------------------------------------- state
VARIABLES
  orders,         \* orders collection: _id -> Order document
  orderStatuses,  \* order_status collection, in insertion order
  ledger,         \* webhook_logs collection, in insertion order
  procs,          \* the running handler invocations
  applied         \* ledger id of the handling that returned success last,
                  \* 0 once any other call has started since

vars == <<orders, orderStatuses, ledger, procs, applied>>

OrderIds == {"oid_1"}

NoResult == [orderId |-> "", customOrderId |-> "", status |-> "",
             orderAmount |-> 0, transactionAmount |-> 0,
             previousStatus |-> ""]

NoResp == [success |-> FALSE, message |-> "", status |-> "",
           previousStatus |-> ""]

\* What a status query answers (the fields the two queries share).
NoView == [status |-> "", orderAmount |-> 0, transactionAmount |-> 0,
           amount |-> 0, paymentMode |-> ""]

IdleProc == [pc |-> "idle", kind |-> "none", wid |-> 0, oi |-> NoOrderInfo,
             order |-> "", existing |-> 0, prev |-> "", result |-> NoResult,
             queue |-> <<>>, seen |-> {}, rc0 |-> 0, error |-> "",
             faulted |-> FALSE, resp |-> NoResp, view |-> NoView]

\* The order is one createPayment saved: its amount is kept in metadata.amount
\* (metaAmount), the metadata also holds the provider reference.
Init ==
  /\ orders = [o \in OrderIds |->
                 [_id |-> o, custom_order_id |-> "ORD_1", amount |-> 300,
                  collectRequestId |-> "CR_1", paymentStatus |-> "",
                  metaAmount |-> 300, metaPaymentMode |-> ""]]
  /\ orderStatuses = <<>>
  /\ ledger = <<>>
  /\ procs = [p \in Procs |-> IdleProc]
  /\ applied = 0

\* ------------------------------------------------------- identifier resolver
\* orderModel.findOne({$or: searchConditions}) of updatePaymentStatusFromWebhook.
\* An absent reference leaves every condition comparing with undefined; what
\* that matches depends on the store driver, so the caller passes the
\* document it yields (pick).
FindOrderAnyFirst(ref, pick) ==
  IF ref = "" THEN pick
  ELSE CHOOSE o \in OrderIds : TRUE

FindOrder(ref, pick) ==
  IF ref = "" THEN pick
  ELSE LET matches == {o \in OrderIds :
                         \/ orders[o].collectRequestId = ref
                         \/ orders[o].custom_order_id = ref
                         \/ (IsValidObjectId(ref) /\ orders[o]._id = ref)} IN
       IF matches = {} THEN "" ELSE CHOOSE o \in matches : TRUE

\* orderStatusModel.findOne({collect_id}): the first matching document, 0 if none.
FindOrderStatus(collect_id) ==
  LET idx == {i \in 1..Len(orderStatuses) :
                orderStatuses[i].collect_id = collect_id} IN
  IF idx = {} THEN 0 ELSE CHOOSE i \in idx : \A j \in idx : i <= j

ResolvedOrderAmount(oi, order) ==
  Or(oi.order_amount, Or(oi.transaction_amount, Num(orders[order].amount)))

ResolvedTransactionAmount(oi, order) ==
  Or(oi.transaction_amount, Or(oi.order_amount, Num(orders[order].amount)))

\* statusData of updatePaymentStatusFromWebhook, as stored (Number paths cast).
StatusData(oi, order) ==
  [collect_id |-> order,
   provider_collect_id |-> oi.order_id,
   custom_order_id |-> orders[order].custom_order_id,
   order_amount |-> CastNumber(ResolvedOrderAmount(oi, order)),
   transaction_amount |-> CastNumber(ResolvedTransactionAmount(oi, order)),
   status |-> mapGatewayStatus(oi.status, oi.capture_status),
   gateway_status |-> OrS(oi.gateway_status, OrS(oi.status, "N/A")),
   payment_mode |-> extractPaymentMode(
                      [payment_mode |-> oi.payment_mode,
                       payment_method |-> oi.payment_method,
                       data |-> NoData], NoData),
   capture_status |-> oi.capture_status]

StatusDataCastable(oi, order) ==
  /\ CanCastNumber(ResolvedOrderAmount(oi, order))
  /\ CanCastNumber(ResolvedTransactionAmount(oi, order))

\* A version of the upsert that inserts whether or not a record exists.
UpsertAlwaysCreate(docs, existing, statusData) ==
  Append(docs, statusData)

\* "Upsert order status": update the record read before, else create one.
UpsertOrderStatus(docs, existing, statusData) ==
  IF existing # 0 THEN [docs EXCEPT ![existing] = statusData]
  ELSE Append(docs, statusData)

OrderNotFoundResult(oi) ==
  [orderId |-> oi.order_id, customOrderId |-> oi.order_id,
   status |-> "order_not_found",
   orderAmount |-> CastNumber(oi.order_amount),
   transactionAmount |-> CastNumber(oi.transaction_amount),
   previousStatus |-> ""]

\* A result that always reports the status the event asked for.
ReconcileResultIncoming(oi, order, status, prev) ==
  [orderId |-> order, customOrderId |-> orders[order].custom_order_id,
   status |-> mapGatewayStatus(oi.status, oi.capture_status),
   orderAmount |-> CastNumber(ResolvedOrderAmount(oi, order)),
   transactionAmount |-> CastNumber(ResolvedTransactionAmount(oi, order)),
   previousStatus |-> prev]

ReconcileResult(oi, order, status, prev) ==
  [orderId |-> order, customOrderId |-> orders[order].custom_order_id,
   status |-> status,
   orderAmount |-> CastNumber(ResolvedOrderAmount(oi, order)),
   transactionAmount |-> CastNumber(ResolvedTransactionAmount(oi, order)),
   previousStatus |-> prev]

\* ------------------------------------------------------------- ledger writes
NewLedgerEntry(payload) ==
  [payload |-> payload, status |-> "pending", retry_count |-> 0,
   error_message |-> "", related_order_id |-> "", next_retry_at |-> 0]

\* A status write that also replaces the stored payload.
MarkProcessingStripPayload(entry) ==
  [entry EXCEPT !.status = "processing", !.payload = EmptyPayload]

MarkProcessing(entry) == [entry EXCEPT !.status = "processing"]

MarkProcessed(entry, result) ==
  [entry EXCEPT !.status = "processed", !.related_order_id = result.orderId]

MarkFailedKeepStatus(entry, message) ==
  [entry EXCEPT !.error_message = message]

\* A failure write that records a fixed text instead of the error's message.
MarkFailedGenericMessage(entry, message) ==
  [entry EXCEPT !.status = "failed",
                !.error_message = "Webhook processing failed"]

MarkFailed(entry, message) ==
  [entry EXCEPT !.status = "failed", !.error_message = message]

RetryMarkProcessed(entry, rc) ==
  [entry EXCEPT !.status = "processed", !.retry_count = rc + 1]

RetryCeiling == 3

\* Math.pow(2, n)
RECURSIVE Pow2(_)
Pow2(n) == IF n = 0 THEN 1 ELSE 2 * Pow2(n - 1)

\* backoffMinutes of the catch block (line 422)
BackoffMinutes(retryCount) == Pow2(retryCount) * 5

RetryRescheduleRetrying(entry, rc, message) ==
  [entry EXCEPT !.status = "retrying", !.retry_count = rc + 1,
                !.next_retry_at = BackoffMinutes(rc + 1),
                !.error_message = message]

\* A reschedule whose delay grows by the same amount at every failure.
RetryRescheduleLinear(entry, rc, message) ==
  [entry EXCEPT !.retry_count = rc + 1,
                !.next_retry_at = (rc + 1) * 10,
                !.error_message = message]

\* A reschedule that also writes the status back to failed.
RetryRescheduleFailed(entry, rc, message) ==
  [entry EXCEPT !.status = "failed", !.retry_count = rc + 1,
                !.next_retry_at = BackoffMinutes(rc + 1),
                !.error_message = message]

\* A reschedule that leaves the retry count as it was.
RetryRescheduleKeepCount(entry, rc, message) ==
  [entry EXCEPT !.next_retry_at = BackoffMinutes(rc + 1),
                !.error_message = message]

\* Lines 421-430.  next_retry_at is kept as the number of minutes between the
\* time of this write (Date.now()) and the time written.
RetryReschedule(entry, rc, message) ==
  [entry EXCEPT !.retry_count = rc + 1,
                !.next_retry_at = BackoffMinutes(rc + 1),
                !.error_message = message]

\* A selection by the status value the schema declares for entries in retry.
SelectRetrying(log) ==
  SelectSeq([i \in 1..Len(log) |-> [id |-> i, rc |-> log[i].retry_count]],
            LAMBDA e : log[e.id].status = "retrying" /\ e.rc < RetryCeiling)

SelectFailedInclusive(log) ==
  SelectSeq([i \in 1..Len(log) |-> [id |-> i, rc |-> log[i].retry_count]],
            LAMBDA e : log[e.id].status = "failed" /\ e.rc <= RetryCeiling)

\* A selection that leaves out the entries another running sweep holds.
SelectFailedUnclaimed(log) ==
  SelectSeq([i \in 1..Len(log) |-> [id |-> i, rc |-> log[i].retry_count]],
            LAMBDA e : /\ log[e.id].status = "failed" /\ e.rc < RetryCeiling
                       /\ \A q \in Procs :
                            ~(/\ procs[q].kind = "sweep"
                              /\ procs[q].pc \notin {"idle", "returned", "threw"}
                              /\ \/ procs[q].wid = e.id
                                 \/ \E k \in 1..Len(procs[q].queue) :
                                      procs[q].queue[k].id = e.id))

\* webhookLogModel.find({status: 'failed', retry_count: {$lt: 3}})
SelectFailed(log) ==
  SelectSeq([i \in 1..Len(log) |-> [id |-> i, rc |-> log[i].retry_count]],
            LAMBDA e : log[e.id].status = "failed" /\ e.rc < RetryCeiling)

\* ------------------------------------------------ WebhooksService.processWebhook
Rest == {"idle", "returned", "threw"}

\* One call at a time (requests handled one after the other).
CanStartSeq(p) == p = 1 /\ \A q \in Procs : procs[q].pc \in Rest

\* Calls overlap: a call may start while others are suspended on the store.
CanStartConc(p) == procs[p].pc \in Rest

Payload(p) == ledger[procs[p].wid].payload

\* A call that has left: only its outcome remains.
Done(p, pc, resp) ==
  [IdleProc EXCEPT !.pc = pc, !.kind = procs[p].kind,
                   !.wid = IF procs[p].kind = "webhook" THEN procs[p].wid ELSE 0,
                   !.resp = resp]

\* webhookLogModel.create({... status: 'pending'}) (line 35); it is outside
\* the try block, so a failure leaves processWebhook by exception.
WStart(p, payload, ok) ==
  /\ Len(ledger) < MaxLedger
  /\ IF ok
       THEN /\ ledger' = Append(ledger, NewLedgerEntry(payload))
            /\ procs' = [procs EXCEPT ![p] =
                 [IdleProc EXCEPT !.pc = "created", !.kind = "webhook",
                                  !.wid = Len(ledger) + 1]]
       ELSE /\ ledger' = ledger
            /\ procs' = [procs EXCEPT ![p] =
                 [IdleProc EXCEPT !.pc = "threw", !.kind = "webhook"]]
  /\ applied' = IF applied # 0 /\ ledger[applied].payload = payload
                THEN applied ELSE 0
  /\ UNCHANGED <<orders, orderStatuses>>

\* processWebhook(null): payload.type is read before the try block (line 37).
WStartNull(p) ==
  /\ procs' = [procs EXCEPT ![p] =
       [IdleProc EXCEPT !.pc = "threw", !.kind = "webhook"]]
  /\ applied' = 0
  /\ UNCHANGED <<orders, orderStatuses, ledger>>

\* Lines 46-97: validate, build the event, then mark the entry processing.
WNormalize(p, ok) ==
  /\ procs[p].pc = "created" /\ procs[p].kind = "webhook"
  /\ IF ~validateWebhookPayload(Payload(p))
       THEN /\ procs' = [procs EXCEPT ![p].pc = "catch",
                           ![p].error = "Invalid webhook payload: missing required fields"]
            /\ ledger' = ledger
       ELSE IF ok
       THEN /\ ledger' = [ledger EXCEPT ![procs[p].wid] = MarkProcessing(@)]
            /\ procs' = [procs EXCEPT ![p].pc = "lookup",
                                      ![p].oi = ParseWebhook(Payload(p))]
       ELSE /\ ledger' = ledger
            /\ procs' = [procs EXCEPT ![p].pc = "catch",
                           ![p].error = "store error", ![p].faulted = TRUE]
  /\ UNCHANGED <<orders, orderStatuses, applied>>

\* ---------------------------------------------- updatePaymentStatusFromWebhook
\* Shared by processWebhook and retryFailedWebhooks; every exception is
\* rethrown to the caller's catch block.
\* The variables declared inside the try block are out of scope in the catch
\* block and in the next iteration of the loop.
OutOfTry(proc) ==
  [proc EXCEPT !.oi = IdleProc.oi, !.order = "", !.existing = 0,
               !.prev = "", !.result = NoResult]

Throw(p, msg) ==
  procs' = [procs EXCEPT ![p] = [OutOfTry(@) EXCEPT !.pc = "catch",
                                   !.error = msg, !.faulted = TRUE]]

\* orderModel.findOne({$or: searchConditions}) (line 162)
RLookup(p, ok, pick) ==
  /\ procs[p].pc = "lookup"
  /\ IF ~ok THEN Throw(p, "store error")
     ELSE LET order == FindOrder(procs[p].oi.order_id, pick) IN
       IF order = ""
         THEN procs' = [procs EXCEPT ![p].pc = "close",
                          ![p].result = OrderNotFoundResult(procs[p].oi)]
         ELSE procs' = [procs EXCEPT ![p].pc = "readStatus",
                                     ![p].order = order]
  /\ UNCHANGED <<orders, orderStatuses, ledger, applied>>

\* orderStatusModel.findOne({collect_id}) and the downgrade guard (194-208)
RReadStatus(p, ok) ==
  /\ procs[p].pc = "readStatus"
  /\ IF ~ok THEN Throw(p, "store error")
     ELSE LET existing == FindOrderStatus(procs[p].order)
              previousStatus == IF existing = 0 THEN ""
                                ELSE orderStatuses[existing].status
              normalizedStatus == mapGatewayStatus(procs[p].oi.status,
                                                   procs[p].oi.capture_status) IN
       IF existing # 0 /\ ~shouldUpdateStatus(previousStatus, normalizedStatus)
         THEN procs' = [procs EXCEPT ![p].pc = "close",
                          ![p].existing = existing, ![p].prev = previousStatus,
                          ![p].result = ReconcileResult(procs[p].oi,
                             procs[p].order, previousStatus, previousStatus)]
         ELSE procs' = [procs EXCEPT ![p].pc = "upsert",
                          ![p].existing = existing, ![p].prev = previousStatus]
  /\ UNCHANGED <<orders, orderStatuses, ledger, applied>>

\* findByIdAndUpdate(existingOrderStatus._id, statusData) or create (231-235)
RUpsert(p, ok) ==
  /\ procs[p].pc = "upsert"
  /\ IF ~ok
       THEN Throw(p, "store error") /\ orderStatuses' = orderStatuses
     ELSE IF ~StatusDataCastable(procs[p].oi, procs[p].order)
       THEN /\ procs' = [procs EXCEPT ![p] =
                 [OutOfTry(@) EXCEPT !.pc = "catch", !.error = "cast error"]]
            /\ orderStatuses' = orderStatuses
     ELSE /\ procs[p].existing # 0 \/ Len(orderStatuses) < MaxDocs
          /\ orderStatuses' = UpsertOrderStatus(orderStatuses,
               procs[p].existing, StatusData(procs[p].oi, procs[p].order))
          /\ procs' = [procs EXCEPT ![p].pc = "meta"]
  /\ UNCHANGED <<orders, ledger, applied>>

\* orderModel.findByIdAndUpdate(order._id, {$set: metadata...}) (238-257)
RMeta(p, ok) ==
  /\ procs[p].pc = "meta"
  /\ LET oi == procs[p].oi
         order == procs[p].order
         data == StatusData(oi, order) IN
     IF ~ok
       THEN Throw(p, "store error") /\ orders' = orders
       ELSE /\ orders' = [orders EXCEPT ![order].paymentStatus = data.status,
                            ![order].metaAmount = data.order_amount,
                            ![order].metaPaymentMode = data.payment_mode]
            /\ procs' = [procs EXCEPT ![p].pc = "close",
                 ![p].result = ReconcileResult(oi, order, data.status,
                                               procs[p].prev)]
  /\ UNCHANGED <<orderStatuses, ledger, applied>>

\* Lines 105-127: close the entry as processed and answer.
WClose(p, ok) ==
  /\ procs[p].pc = "close" /\ procs[p].kind = "webhook"
  /\ IF ~ok
       THEN Throw(p, "store error") /\ UNCHANGED <<ledger, applied>>
     ELSE IF ~CanCastObjectId(procs[p].result.orderId)
       THEN /\ procs' = [procs EXCEPT ![p] =
                 [OutOfTry(@) EXCEPT !.pc = "catch", !.error = "cast error"]]
            /\ UNCHANGED <<ledger, applied>>
     ELSE /\ ledger' = [ledger EXCEPT ![procs[p].wid] =
                          MarkProcessed(@, procs[p].result)]
          /\ procs' = [procs EXCEPT ![p] = Done(p, "returned",
               [success |-> TRUE,
                message |-> "Webhook processed successfully",
                status |-> procs[p].result.status,
                previousStatus |-> procs[p].result.previousStatus])]
          /\ applied' = procs[p].wid
  /\ UNCHANGED <<orders, orderStatuses>>

\* Lines 128-137: the catch block; its own store write is not protected.
WCatch(p, ok) ==
  /\ procs[p].pc = "catch" /\ procs[p].kind = "webhook"
  /\ IF ok
       THEN /\ ledger' = [ledger EXCEPT ![procs[p].wid] =
                            MarkFailed(@, procs[p].error)]
            /\ procs' = [procs EXCEPT ![p] = Done(p, "returned",
                 [success |-> FALSE, message |-> procs[p].error,
                  status |-> "", previousStatus |-> ""])]
       ELSE /\ ledger' = ledger
            /\ procs' = [procs EXCEPT ![p] = Done(p, "threw", NoResp)]
  /\ applied' = 0
  /\ UNCHANGED <<orders, orderStatuses>>

\* ------------------------------------------ WebhooksService.retryFailedWebhooks
\* webhookLogModel.find({status: 'failed', retry_count: {$lt: 3}}) (350-353)
SStart(p, ok) ==
  /\ IF ok
       THEN procs' = [procs EXCEPT ![p] =
              [IdleProc EXCEPT !.pc = "sweep_next", !.kind = "sweep",
                               !.queue = SelectFailed(ledger)]]
       ELSE procs' = [procs EXCEPT ![p] =
              [IdleProc EXCEPT !.pc = "threw", !.kind = "sweep"]]
  /\ applied' = 0
  /\ UNCHANGED <<orders, orderStatuses, ledger>>

\* The for loop: take the next selected entry and rebuild its event
\* (357-398), or return the summary when none is left.
SNext(p) ==
  /\ procs[p].pc = "sweep_next"
  /\ IF procs[p].queue = <<>>
       THEN procs' = [procs EXCEPT ![p] =
              Done(p, "returned", NoResp)]
       ELSE LET e == Head(procs[p].queue) IN
            procs' = [procs EXCEPT ![p].pc = "lookup",
                        ![p].wid = e.id, ![p].rc0 = e.rc,
                        ![p].queue = Tail(procs[p].queue),
                        ![p].oi = ParseRetry(ledger[e.id].payload),
                        ![p].order = "", ![p].existing = 0, ![p].prev = "",
                        ![p].result = NoResult, ![p].error = "",
                        ![p].faulted = FALSE]
  /\ UNCHANGED <<orders, orderStatuses, ledger, applied>>

\* "Mark as processed" (404-408); inside the try block.
SMarkProcessed(p, ok) ==
  /\ procs[p].pc = "close" /\ procs[p].kind = "sweep"
  /\ IF ok
       THEN /\ ledger' = [ledger EXCEPT ![procs[p].wid] =
                            RetryMarkProcessed(@, procs[p].rc0)]
            /\ procs' = [procs EXCEPT ![p] =
                 [OutOfTry(@) EXCEPT !.pc = "sweep_next", !.error = "",
                    !.seen = @ \cup {procs[p].wid}]]
       ELSE Throw(p, "store error") /\ ledger' = ledger
  /\ UNCHANGED <<orders, orderStatuses, applied>>

\* The per-entry catch block (419-441); its own store write is not protected.
SCatch(p, ok) ==
  /\ procs[p].pc = "catch" /\ procs[p].kind = "sweep"
  /\ IF ok
       THEN /\ ledger' = [ledger EXCEPT ![procs[p].wid] =
                            RetryReschedule(@, procs[p].rc0, procs[p].error)]
            /\ procs' = [procs EXCEPT ![p] =
                 [OutOfTry(@) EXCEPT !.pc = "sweep_next", !.error = "",
                    !.seen = @ \cup {procs[p].wid}]]
       ELSE /\ ledger' = ledger
            /\ procs' = [procs EXCEPT ![p] = Done(p, "threw", NoResp)]
  /\ UNCHANGED <<orders, orderStatuses, applied>>

\* ------------------------------------- PaymentsService (POST /payments/webhook)
toLowerCase(s) ==
  CASE s = "SUCCESS" -> "success"
    [] s = "PAID" -> "paid"
    [] s = "PENDING" -> "pending"
    [] s = "FAILED" -> "failed"
    [] s = "CANCELLED" -> "cancelled"
    [] s = "USER_DROPPED" -> "user_dropped"
    [] OTHER -> s

\* The bodies posted to /payments/webhook in the model.
PaymentsPayloads == { ShapeB("ORD_1", "PENDING", Undef, "") }

\* PaymentsController.handleWebhook: incoming = payload.order_info ?? payload
IncomingOrderId(payload) ==
  IF payload.order_info.present THEN payload.order_info.order_id
  ELSE OrS(payload.order_id, payload.collect_request_id)

IncomingStatus(payload) ==
  toLowerCase(
    IF payload.order_info.present
      THEN OrS(payload.order_info.status, OrS(payload.status, "PENDING"))
      ELSE OrS(payload.status, "PENDING"))

\* details.transaction_amount ?? details.order_amount ?? details.amount ?? 0,
\* replaced by the order's amount when falsy (624-634)
IncomingAmount(payload, order) ==
  LET d == IF payload.order_info.present THEN payload.order_info ELSE payload
      first == IF d.transaction_amount.t # "undef" THEN d.transaction_amount
               ELSE IF d.order_amount.t # "undef" THEN d.order_amount
               ELSE d.amount IN
  IF first.t = "undef" \/ (first.t = "num" /\ first.v = 0)
    THEN Num(orders[order].amount) ELSE first

IncomingMode(payload) ==
  LET d == IF payload.order_info.present THEN payload.order_info ELSE payload IN
  OrS(d.payment_mode, "N/A")

\* The $set document of updatePaymentStatus (654-667).
PaymentsUpdate(payload, order, old) ==
  [collect_id |-> order,
   provider_collect_id |-> IncomingOrderId(payload),
   custom_order_id |-> orders[order].custom_order_id,
   order_amount |-> CastNumber(IncomingAmount(payload, order)),
   transaction_amount |-> CastNumber(IncomingAmount(payload, order)),
   status |-> PaymentsMapGatewayStatus(IncomingStatus(payload), ""),
   gateway_status |-> IncomingStatus(payload),
   payment_mode |-> IncomingMode(payload),
   capture_status |-> old]

\* PaymentsController.handleWebhook -> PaymentsService.updatePaymentStatus:
\* an unconditional findOneAndUpdate({collect_id}, {$set}, {upsert: true}).
PaymentsWebhook(payload) ==
  /\ IncomingOrderId(payload) # ""
  /\ LET order == FindOrder(IncomingOrderId(payload), "")
         existing == FindOrderStatus(order) IN
     /\ order # ""
     /\ CanCastNumber(IncomingAmount(payload, order))
     /\ existing # 0 \/ Len(orderStatuses) < MaxDocs
     /\ orderStatuses' =
          IF existing # 0
            THEN [orderStatuses EXCEPT ![existing] =
                    PaymentsUpdate(payload, order, @.capture_status)]
            ELSE Append(orderStatuses, PaymentsUpdate(payload, order, ""))
     /\ orders' = [orders EXCEPT ![order].paymentStatus =
                     PaymentsMapGatewayStatus(IncomingStatus(payload), "")]
  /\ applied' = 0
  /\ UNCHANGED <<ledger, procs>>

\* ------------------------------------------- PaymentsService.getPaymentStatus
QueryRefs == {"CR_1", "NOPE"}

\* What the external collect-request API answers: a failure, or a status.
ExternalAnswers == {"fail", "SUCCESS"}

\* orderModel.findOne over the five string conditions (301-308); no _id.
QueryFindOrder(ref) ==
  LET matches == {o \in OrderIds : \/ orders[o].custom_order_id = ref
                                   \/ orders[o].collectRequestId = ref} IN
  IF matches = {} THEN "" ELSE CHOOSE o \in matches : TRUE

\* orderStatusModel.findOne over the same conditions (318).
QueryFindOrderStatus(ref) ==
  LET idx == {i \in 1..Len(orderStatuses) :
                \/ orderStatuses[i].custom_order_id = ref
                \/ orderStatuses[i].provider_collect_id = ref} IN
  IF idx = {} THEN 0 ELSE CHOOSE i \in idx : \A j \in idx : i <= j

\* Local record first; when none matches the reference, the external API is
\* asked and its answer is persisted as a new order-status document (416-433).
GetPaymentStatus(ref, ext) ==
  /\ Len(orderStatuses) < MaxDocs
  /\ LET order == QueryFindOrder(ref) IN
     IF QueryFindOrderStatus(ref) # 0 \/ ext = "fail"
       THEN orderStatuses' = orderStatuses
       ELSE orderStatuses' = Append(orderStatuses,
              [collect_id |-> IF order # "" THEN order ELSE "oid_new",
               provider_collect_id |-> ref,
               custom_order_id |-> ref,
               order_amount |-> 0,
               transaction_amount |-> 0,
               status |-> PaymentsMapGatewayStatus(ext, ""),
               gateway_status |-> ext,
               payment_mode |-> "N/A",
               capture_status |-> ""])
  /\ applied' = 0
  /\ UNCHANGED <<orders, ledger, procs>>

\* ---- the status queries, as calls that answer
\* The references a caller asks about: the order's custom_order_id, its
\* provider reference, its primary key, and one no order carries.
StatusRefs == {"ORD_1", "CR_1", "oid_1", "NOPE"}

\* orderModel.findOne of getOrderStatus (287-295); _id only for a valid id.
GetOrderStatusFind(orderId) ==
  LET matches == {o \in OrderIds :
                    \/ orders[o].custom_order_id = orderId
                    \/ orders[o].collectRequestId = orderId
                    \/ (IsValidObjectId(orderId) /\ orders[o]._id = orderId)} IN
  IF matches = {} THEN "" ELSE CHOOSE o \in matches : TRUE

\* The view getOrderStatus builds from the order and its record (320-338).
OrderStatusView(order, rec) ==
  IF order = "" THEN [NoView EXCEPT !.status = "order_not_found"]
  ELSE IF rec = 0
    THEN [NoView EXCEPT !.status = "unknown",
                        !.paymentMode = OrS(orders[order].metaPaymentMode,
                                            "unknown")]
    ELSE [status |-> OrS(orderStatuses[rec].status, "unknown"),
          orderAmount |-> orderStatuses[rec].order_amount,
          transactionAmount |-> orderStatuses[rec].transaction_amount,
          amount |-> 0,
          paymentMode |-> OrS(orderStatuses[rec].payment_mode,
                              OrS(orders[order].metaPaymentMode, "unknown"))]

\* WebhooksService.getOrderStatus(orderId): every failure is answered with
\* the 'error' view (342-345).  rec is the record findOne(...).sort({updatedAt:
\* -1}) yields among those of the order (update times are not kept here).
GetOrderStatus(p, orderId, ok, rec) ==
  /\ LET order == IF ok THEN GetOrderStatusFind(orderId) ELSE ""
         recs == {i \in 1..Len(orderStatuses) :
                    orderStatuses[i].collect_id = order} IN
     /\ IF order # "" /\ recs # {} THEN rec \in recs ELSE rec = 0
     /\ procs' = [procs EXCEPT ![p] =
          [IdleProc EXCEPT !.pc = "returned", !.kind = "orderStatus",
             !.oi = [NoOrderInfo EXCEPT !.order_id = orderId],
             !.order = order, !.existing = rec, !.faulted = ~ok,
             !.view = IF ok THEN OrderStatusView(order, rec)
                      ELSE [NoView EXCEPT !.status = "error"]]]
  /\ applied' = 0
  /\ UNCHANGED <<orders, orderStatuses, ledger>>

\* The order the fallback of getPaymentStatus reads (449-456): its filter
\* holds {_id: customOrderId} unguarded.
FallbackAmountOf(ref) ==
  LET matches == {o \in OrderIds : \/ orders[o].collectRequestId = ref
                                   \/ orders[o].custom_order_id = ref
                                   \/ orders[o]._id = ref} IN
  IF matches = {} THEN 0
  ELSE LET o == CHOOSE o \in matches : TRUE IN
       IF orders[o].amount # 0 THEN orders[o].amount ELSE orders[o].metaAmount

\* PaymentsService.getPaymentStatus(customOrderId) as a call (296-472):
\* the local record if one matches the reference, else the external API, whose
\* answer is stored; every exception leaves as BadRequestException (467-471).
GetPaymentStatusCall(p, ref, ext, ok) ==
  LET order == QueryFindOrder(ref)
      rec == QueryFindOrderStatus(ref)
      call == [IdleProc EXCEPT !.kind = "paymentStatus",
                 !.oi = [NoOrderInfo EXCEPT !.order_id = ref],
                 !.order = order, !.existing = rec]
      threw == [call EXCEPT !.pc = "threw"] IN
  /\ IF ~ok
       THEN /\ procs' = [procs EXCEPT ![p] = [threw EXCEPT !.faulted = TRUE,
                                                          !.order = "",
                                                          !.existing = 0]]
            /\ orderStatuses' = orderStatuses
     ELSE IF rec # 0
       THEN /\ orderStatuses' = orderStatuses
            /\ IF order = ""
                 THEN procs' = [procs EXCEPT ![p] = threw]
                 ELSE procs' = [procs EXCEPT ![p] =
                        [call EXCEPT !.pc = "returned",
                           !.view = [NoView EXCEPT
                              !.status = PaymentsMapGatewayStatus(
                                 orderStatuses[rec].gateway_status,
                                 orderStatuses[rec].capture_status),
                              !.amount = orderStatuses[rec].transaction_amount,
                              !.paymentMode =
                                 OrS(orderStatuses[rec].payment_mode, "N/A")]]]
     ELSE IF ext = "fail"
       THEN /\ orderStatuses' = orderStatuses
            /\ IF CanCastObjectId(ref)
                 THEN procs' = [procs EXCEPT ![p] =
                        [call EXCEPT !.pc = "returned",
                           !.view = [NoView EXCEPT !.status = "unknown",
                                       !.amount = FallbackAmountOf(ref)]]]
                 ELSE procs' = [procs EXCEPT ![p] = threw]
     ELSE /\ Len(orderStatuses) < MaxDocs
          /\ orderStatuses' = Append(orderStatuses,
               [collect_id |-> IF order # "" THEN order ELSE "oid_new",
                provider_collect_id |-> ref,
                custom_order_id |-> ref,
                order_amount |-> 0,
                transaction_amount |-> 0,
                status |-> PaymentsMapGatewayStatus(ext, ""),
                gateway_status |-> ext,
                payment_mode |-> "N/A",
                capture_status |-> ""])
          /\ procs' = [procs EXCEPT ![p] =
               [call EXCEPT !.pc = "returned",
                  !.view = [NoView EXCEPT
                              !.status = PaymentsMapGatewayStatus(ext, "")]]]
  /\ applied' = 0
  /\ UNCHANGED <<orders, ledger>>

\* ------------------------------------------------------------ specifications
\* One step of a running call; F holds the outcomes the store may give
\* (TRUE: the operation succeeds, FALSE: it fails).
StepF(p, F) ==
  \/ \E ok \in F : WNormalize(p, ok)
  \/ \E ok \in F, pick \in OrderIds \cup {""} : RLookup(p, ok, pick)
  \/ \E ok \in F : RReadStatus(p, ok)
  \/ \E ok \in F : RUpsert(p, ok)
  \/ \E ok \in F : RMeta(p, ok)
  \/ \E ok \in F : WClose(p, ok)
  \/ \E ok \in F : WCatch(p, ok)
  \/ SNext(p)
  \/ \E ok \in F : SMarkProcessed(p, ok)
  \/ \E ok \in F : SCatch(p, ok)

Step(p) == StepF(p, BOOLEAN)

Next ==
  \/ \E p \in Procs, payload \in Payloads, ok \in BOOLEAN :
       CanStartSeq(p) /\ WStart(p, payload, ok)
  \/ \E p \in Procs : CanStartSeq(p) /\ WStartNull(p)
  \/ \E p \in Procs, ok \in BOOLEAN : CanStartSeq(p) /\ SStart(p, ok)
  \/ \E p \in Procs : Step(p)

Spec == Init /\ [][Next]_vars

\* Overlapping calls on a store that does not fail: every await is a point
\* where another call may run.  No retry throws without a store failure, so
\* the per-entry catch block of the sweep takes no step here.
NextConc ==
  \/ \E p \in Procs, payload \in Payloads :
       CanStartConc(p) /\ WStart(p, payload, TRUE)
  \/ \E p \in Procs : CanStartConc(p) /\ WStartNull(p)
  \/ \E p \in Procs : CanStartConc(p) /\ SStart(p, TRUE)
  \/ \E p \in Procs : WNormalize(p, TRUE)
  \/ \E p \in Procs, pick \in OrderIds \cup {""} : RLookup(p, TRUE, pick)
  \/ \E p \in Procs : RReadStatus(p, TRUE)
  \/ \E p \in Procs : RUpsert(p, TRUE)
  \/ \E p \in Procs : RMeta(p, TRUE)
  \/ \E p \in Procs : WClose(p, TRUE)
  \/ \E p \in Procs : WCatch(p, TRUE)
  \/ \E p \in Procs : SNext(p)
  \/ \E p \in Procs : SMarkProcessed(p, TRUE)
  \/ \E payload \in PaymentsPayloads : PaymentsWebhook(payload)
  \/ \E ref \in QueryRefs, ext \in ExternalAnswers : GetPaymentStatus(ref, ext)

SpecConc == Init /\ [][NextConc]_vars

\* ---- the handling of one webhook, for every input of the normalizer
\* The status of the order's record before the webhook ("" : no record yet).
PriorStatuses == {""} \cup PaymentStatus

\* The record an earlier flat webhook with that status has left.
PriorRecord(st) ==
  [collect_id |-> "oid_1", provider_collect_id |-> "ORD_1",
   custom_order_id |-> "ORD_1", order_amount |-> 300,
   transaction_amount |-> 300, status |-> st, gateway_status |-> st,
   payment_mode |-> "unknown", capture_status |-> ""]

\* order.amount as the lean() order document gives it: the Order schema
\* declares no amount path, so the field is absent (0 here) unless the
\* document was written with one.
OrderAmounts == {0, 300}

NormInputs ==
  {[payload |-> pl, prior |-> st, amount |-> 300] :
     pl \in StatusPayloads, st \in PriorStatuses}
  \cup {[payload |-> pl, prior |-> "", amount |-> a] :
          pl \in AmountPayloads \cup ContentPayloads, a \in OrderAmounts}
  \cup {[payload |-> pl, prior |-> st, amount |-> 300] :
          pl \in ModePayloads, st \in {"", "pending"}}
  \cup {[payload |-> pl, prior |-> "", amount |-> 300] :
          pl \in PresencePayloads}

\* processWebhook has just created the ledger entry of its payload (line 35).
InitNorm ==
  \E in \in NormInputs :
    /\ orders = [o \in OrderIds |->
                   [_id |-> o, custom_order_id |-> "ORD_1",
                    amount |-> in.amount, collectRequestId |-> "CR_1",
                    paymentStatus |-> in.prior, metaAmount |-> 300,
                    metaPaymentMode |-> ""]]
    /\ orderStatuses = IF in.prior = "" THEN <<>>
                       ELSE <<PriorRecord(in.prior)>>
    /\ ledger = <<NewLedgerEntry(in.payload)>>
    /\ procs = [p \in Procs |->
                  IF p = 1 THEN [IdleProc EXCEPT !.pc = "created",
                                                 !.kind = "webhook", !.wid = 1]
                  ELSE IdleProc]
    /\ applied = 0

\* The handling runs to its end, then retry sweeps run one after the other;
\* the only store operation that may fail is the order lookup.
NextNorm ==
  \/ \E p \in Procs : CanStartSeq(p) /\ SStart(p, TRUE)
  \/ \E p \in Procs : WNormalize(p, TRUE)
  \/ \E p \in Procs, ok \in BOOLEAN, pick \in OrderIds \cup {""} :
       RLookup(p, ok, pick)
  \/ \E p \in Procs : RReadStatus(p, TRUE)
  \/ \E p \in Procs : RUpsert(p, TRUE)
  \/ \E p \in Procs : RMeta(p, TRUE)
  \/ \E p \in Procs : WClose(p, TRUE)
  \/ \E p \in Procs : WCatch(p, TRUE)
  \/ \E p \in Procs : SNext(p)
  \/ \E p \in Procs : SMarkProcessed(p, TRUE)
  \/ \E p \in Procs : SCatch(p, TRUE)

SpecNorm == InitNorm /\ [][NextNorm]_vars

\* ---- webhooks and status queries, one call at a time
\* The webhook bodies sent before the queries: a success whose capture is
\* still pending, a pending event by provider reference, a failure, and an
\* event for a reference no order carries.
QueryPayloads ==
  { [ShapeC("ORD_1", "SUCCESS", Num(450), "upi") EXCEPT
       !.order_info.capture_status = "PENDING"],
    ShapeB("CR_1", "PENDING", Undef, ""),
    ShapeA("ORD_1", "FAILED", Str(500), "card"),
    ShapeB("NOPE", "SUCCESS", Num(100), "") }

\* Webhook handlings run on a store that does not fail; a query may meet a
\* failing store, and the external API may fail or answer.
NextQuery ==
  \/ \E p \in Procs, payload \in QueryPayloads :
       CanStartSeq(p) /\ WStart(p, payload, TRUE)
  \/ \E p \in Procs : WNormalize(p, TRUE)
  \/ \E p \in Procs, pick \in OrderIds \cup {""} : RLookup(p, TRUE, pick)
  \/ \E p \in Procs : RReadStatus(p, TRUE)
  \/ \E p \in Procs : RUpsert(p, TRUE)
  \/ \E p \in Procs : RMeta(p, TRUE)
  \/ \E p \in Procs : WClose(p, TRUE)
  \/ \E p \in Procs : WCatch(p, TRUE)
  \/ \E p \in Procs, ref \in StatusRefs, ok \in BOOLEAN,
        rec \in 0..MaxDocs :
       CanStartSeq(p) /\ GetOrderStatus(p, ref, ok, rec)
  \/ \E p \in Procs, ref \in StatusRefs, ext \in ExternalAnswers,
        ok \in BOOLEAN :
       CanStartSeq(p) /\ GetPaymentStatusCall(p, ref, ext, ok)

SpecQuery == Init /\ [][NextQuery]_vars

\* ---- overlapping retry sweeps over a ledger that holds failed entries
\* The entries earlier handlings left failed (their first store write failed).
FailedPayloads ==
  { ShapeA("ORD_1", "SUCCESS", Str(500), "upi"),
    ShapeB("NOPE", "SUCCESS", Num(100), "") }

InitSweeps ==
  /\ orders = [o \in OrderIds |->
                 [_id |-> o, custom_order_id |-> "ORD_1", amount |-> 300,
                  collectRequestId |-> "CR_1", paymentStatus |-> "",
                  metaAmount |-> 300, metaPaymentMode |-> ""]]
  /\ orderStatuses = <<>>
  /\ \E pl \in FailedPayloads :
       ledger = <<MarkFailed(NewLedgerEntry(pl), "store error")>>
  /\ procs = [p \in Procs |-> IdleProc]
  /\ applied = 0

\* POST /webhook/retry may be called while an earlier call is suspended on
\* the store; every store operation of a sweep may fail.
NextSweeps ==
  \/ \E p \in Procs, ok \in BOOLEAN : CanStartConc(p) /\ SStart(p, ok)
  \/ \E p \in Procs : SNext(p)
  \/ \E p \in Procs, ok \in BOOLEAN, pick \in OrderIds \cup {""} :
       RLookup(p, ok, pick)
  \/ \E p \in Procs, ok \in BOOLEAN : RReadStatus(p, ok)
  \/ \E p \in Procs, ok \in BOOLEAN : RUpsert(p, ok)
  \/ \E p \in Procs, ok \in BOOLEAN : RMeta(p, ok)
  \/ \E p \in Procs, ok \in BOOLEAN : SMarkProcessed(p, ok)
  \/ \E p \in Procs, ok \in BOOLEAN : SCatch(p, ok)

SpecSweeps == InitSweeps /\ [][NextSweeps]_vars

\* ---- retry sweeps and the passing of time
\* m minutes pass: every next_retry_at that lies ahead comes m minutes closer
\* (next_retry_at is kept relative to the present, 0 once it is reached).
Elapse(m) ==
  /\ \E i \in 1..Len(ledger) : ledger[i].next_retry_at > 0
  /\ ledger' = [i \in 1..Len(ledger) |->
                  [ledger[i] EXCEPT !.next_retry_at =
                     IF @ > m THEN @ - m ELSE 0]]
  /\ UNCHANGED <<orders, orderStatuses, procs, applied>>

\* POST /webhook/retry is called at any time, one call after the other, on a
\* store that may fail; between two steps ten minutes may pass or none.
NextBackoff ==
  \/ \E p \in Procs, ok \in BOOLEAN : CanStartSeq(p) /\ SStart(p, ok)
  \/ \E p \in Procs : SNext(p)
  \/ \E p \in Procs, ok \in BOOLEAN, pick \in OrderIds \cup {""} :
       RLookup(p, ok, pick)
  \/ \E p \in Procs, ok \in BOOLEAN : RReadStatus(p, ok)
  \/ \E p \in Procs, ok \in BOOLEAN : RUpsert(p, ok)
  \/ \E p \in Procs, ok \in BOOLEAN : RMeta(p, ok)
  \/ \E p \in Procs, ok \in BOOLEAN : SMarkProcessed(p, ok)
  \/ \E p \in Procs, ok \in BOOLEAN : SCatch(p, ok)
  \/ Elapse(10)

SpecBackoff == InitSweeps /\ [][NextBackoff]_vars

\* ---- a store that has stopped failing: every operation completes
\* Entries an earlier handling left failed when a store write failed; the
\* second one is reprocessed from its order_info envelope, whose amount no
\* Number path accepts.
StuckPayloads ==
  { ShapeA("ORD_1", "SUCCESS", Str(500), "upi"),
    ShapeC("ORD_1", "SUCCESS", BadStr, "card") }

InitLive ==
  /\ orders = [o \in OrderIds |->
                 [_id |-> o, custom_order_id |-> "ORD_1", amount |-> 300,
                  collectRequestId |-> "CR_1", paymentStatus |-> "",
                  metaAmount |-> 300, metaPaymentMode |-> ""]]
  /\ orderStatuses = <<>>
  /\ \/ ledger = <<>>
     \/ \E pl \in StuckPayloads :
          ledger = <<MarkFailed(NewLedgerEntry(pl), "store error")>>
  /\ procs = [p \in Procs |-> IdleProc]
  /\ applied = 0

\* Webhooks and retry calls arrive one after the other and no store
\* operation fails.
NextLive ==
  \/ \E p \in Procs, payload \in Payloads :
       CanStartSeq(p) /\ WStart(p, payload, TRUE)
  \/ \E p \in Procs : CanStartSeq(p) /\ SStart(p, TRUE)
  \/ \E p \in Procs : StepF(p, {TRUE})

\* Every awaited store operation completes and the call that awaits it
\* resumes: a call that can take a step eventually takes one.
SpecLive ==
  InitLive /\ [][NextLive]_vars
           /\ \A p \in Procs : WF_vars(StepF(p, {TRUE}))

\* ===================================================================== claims
Docs == 1..Len(orderStatuses)

Entries == 1..Len(ledger)

\* Every order-status document that is terminal keeps its status in the step.
TerminalKept ==
  \A i \in Docs : orderStatuses[i].status \in Terminal =>
    /\ i <= Len(orderStatuses')
    /\ orderStatuses'[i].status = orderStatuses[i].status

\* C1: under one-at-a-time webhook handlings and retry sweeps, a record whose
\* status is success, failed or cancelled keeps that status in every step,
\* and a reconciliation result (and the webhook response built from it) that
\* reports a terminal previousStatus reports the same value as status.
C1_Monotone ==
  [][/\ TerminalKept
     /\ \A p \in Procs :
          /\ procs'[p].result.previousStatus \in Terminal =>
               procs'[p].result.status = procs'[p].result.previousStatus
          /\ procs'[p].resp.previousStatus \in Terminal =>
               procs'[p].resp.status = procs'[p].resp.previousStatus]_vars

\* A later event with a different status has met a terminal record.
C1_Witness ==
  \E p \in Procs :
    /\ procs[p].pc = "close"
    /\ procs[p].result.previousStatus \in Terminal
    /\ procs[p].result.status = procs[p].result.previousStatus
    /\ mapGatewayStatus(procs[p].oi.status, "") # procs[p].result.status

\* C2: an event delivered through PaymentsService.updatePaymentStatus (a step
\* of no WebhooksService call) leaves the status of every terminal record
\* unchanged.
C2_Claim == [][procs' = procs => TerminalKept]_vars

\* C3: when webhook handlings interleave at single store operations, no step
\* of a handling overwrites a terminal status with a different one.
C3_Claim == [][procs' # procs => TerminalKept]_vars

\* C4: at most one order-status document carries an order's id as collect_id.
C4_Claim ==
  \A o \in OrderIds :
    Cardinality({i \in Docs : orderStatuses[i].collect_id = o}) <= 1

\* C5: while the payload that was just applied with success is replayed, with
\* no other call in between, no step changes the order-status collection:
\* N applications leave the record that one application left.
C5_Idempotent ==
  [][(applied # 0 /\ applied' = applied) =>
       orderStatuses' = orderStatuses]_vars

\* The replay got as far as writing the record again.
C5_Witness ==
  \E p \in Procs :
    /\ procs[p].kind = "webhook" /\ procs[p].pc = "meta"
    /\ applied # 0 /\ procs[p].wid # applied
    /\ Payload(p) = ledger[applied].payload

\* C6: processWebhook never leaves by exception.
C6_Claim ==
  \A p \in Procs : procs[p].kind = "webhook" => procs[p].pc # "threw"

\* C7: no step of the handling of a payload of unknown shape changes an
\* order-status document or an order, and when the handling returns, its
\* ledger entry is failed and the response says success:false.
C7_UnknownShape ==
  [][\A p \in Procs :
       (/\ procs'[p] # procs[p]
        /\ procs'[p].kind = "webhook" /\ procs'[p].wid # 0
        /\ ~validateWebhookPayload(ledger'[procs'[p].wid].payload)) =>
         /\ orderStatuses' = orderStatuses
         /\ orders' = orders
         /\ procs'[p].pc = "returned" =>
              /\ ledger'[procs'[p].wid].status = "failed"
              /\ procs'[p].resp.success = FALSE]_vars

C7_Witness ==
  \E p \in Procs :
    /\ procs[p].kind = "webhook" /\ procs[p].pc = "returned"
    /\ ~validateWebhookPayload(Payload(p))
    /\ ledger[procs[p].wid].status = "failed"
    /\ procs[p].resp.success = FALSE

\* C8: when reconciliation returned order_not_found and no store operation
\* failed, the handling returns success with status order_not_found and its
\* ledger entry is processed.
C8_Claim ==
  [][\A p \in Procs :
       (/\ procs[p].kind = "webhook" /\ procs[p].pc = "close"
        /\ procs[p].result.status = "order_not_found"
        /\ procs'[p].pc # "close"
        /\ ~procs'[p].faulted) =>
         /\ procs'[p].pc = "returned"
         /\ ledger'[procs[p].wid].status = "processed"
         /\ procs'[p].resp.success
         /\ procs'[p].resp.status = "order_not_found"]_vars

LifecycleStep(allowed) ==
  \A i \in 1..Len(ledger') :
    IF i > Len(ledger) THEN ledger'[i].status = "pending"
    ELSE \/ ledger'[i].status = ledger[i].status
         \/ <<ledger[i].status, ledger'[i].status>> \in allowed

SpecLifecycle ==
  {<<"pending", "processing">>, <<"processing", "processed">>,
   <<"processing", "failed">>, <<"failed", "processed">>}

Eligible(i) ==
  ledger[i].status = "failed" /\ ledger[i].retry_count < RetryCeiling

GapOfFailure(k) == CASE k = 1 -> 10 [] k = 2 -> 20 [] k = 3 -> 40 [] OTHER -> 0

\* C11: whenever a retry failure is recorded for an entry (its retry_count
\* changes and it stays failed), it is the k-th failure with k in 1..3, the
\* next_retry_at written lies 10, 20, 40 minutes after the failure for
\* k = 1, 2, 3, and it is twice the delay written at the previous failure; an
\* entry that is failed with retry_count 3 is never written again.
C11_Backoff ==
  [][\A i \in Entries :
       /\ (ledger'[i].retry_count # ledger[i].retry_count /\
           ledger'[i].status = "failed") =>
            /\ ledger[i].status = "failed"
            /\ ledger'[i].retry_count = ledger[i].retry_count + 1
            /\ ledger'[i].retry_count \in 1..RetryCeiling
            /\ ledger'[i].next_retry_at = GapOfFailure(ledger'[i].retry_count)
            /\ ledger'[i].next_retry_at > ledger[i].next_retry_at
            /\ ledger[i].retry_count > 0 =>
                 ledger'[i].next_retry_at = 2 * ledger[i].next_retry_at
       /\ (ledger[i].status = "failed" /\
           ledger[i].retry_count >= RetryCeiling) =>
            /\ ledger'[i].next_retry_at = ledger[i].next_retry_at
            /\ ledger'[i].retry_count = ledger[i].retry_count
            /\ ledger'[i].status = "failed"]_vars

\* An entry failed in three sweeps and a fourth sweep has passed it by.
C11_Witness ==
  \E p \in Procs, i \in Entries :
    /\ ledger[i].status = "failed" /\ ledger[i].retry_count = 3
    /\ ledger[i].next_retry_at = 40
    /\ procs[p].kind = "sweep" /\ procs[p].pc = "sweep_next"
    /\ procs[p].queue = <<>> /\ i \notin procs[p].seen

\* C13: a sweep that has caught the failure of one entry goes on with the
\* loop; it does not leave by exception.
C13_Claim ==
  [][\A p \in Procs :
       (procs[p].kind = "sweep" /\ procs[p].pc = "catch") =>
         procs'[p].pc # "threw"]_vars

\* C14: when a handling whose reconciliation met a store failure returns, its
\* ledger entry is failed with retry_count 0 and the error recorded, and the
\* selection of the retry sweep contains it.
C14_PersistenceFailure ==
  [][\A p \in Procs :
       (/\ procs[p].kind = "webhook" /\ procs[p].pc = "catch"
        /\ procs[p].error = "store error"
        /\ procs'[p].pc = "returned") =>
         LET i == procs[p].wid
             selected == SelectFailed(ledger') IN
         /\ ledger'[i].status = "failed"
         /\ ledger'[i].retry_count = 0
         /\ ledger'[i].error_message = "store error"
         /\ procs'[p].resp.success = FALSE
         /\ \E k \in 1..Len(selected) : selected[k].id = i]_vars

\* The next sweep reprocesses an entry whose first handling met a store
\* failure.
C14_Witness ==
  \E p \in Procs :
    /\ procs[p].kind = "sweep" /\ procs[p].pc = "lookup"
    /\ procs[p].rc0 = 0
    /\ ledger[procs[p].wid].status = "failed"
    /\ ledger[procs[p].wid].error_message = "store error"

\* ---- the normalizer
\* The shape an event was built from, read off the gateway name it carries.
ShapeOf(oi) ==
  CASE oi.gateway = "Cashfree" -> "A"
    [] oi.gateway = "PhonePe" -> "B"
    [] OTHER -> "C"

\* The classification as the specification words it.
ClassOf(payload) ==
  IF payload.data.present THEN "A"
  ELSE IF payload.order_id # "" \/ payload.collect_request_id # "" THEN "B"
  ELSE IF payload.order_info.present THEN "C"
  ELSE "none"

\* What the claims compare of an event.
EventView(oi) ==
  [order_id |-> oi.order_id, status |-> oi.status,
   order_amount |-> CastNumber(oi.order_amount),
   transaction_amount |-> CastNumber(oi.transaction_amount),
   payment_mode |-> oi.payment_mode]

\* C12: the event a retry sweep derives from a stored payload of a known
\* shape is built from the same shape and has the same order reference,
\* canonical status, order and transaction amount and payment mode as the
\* event processWebhook derives from that payload.
C12_Claim ==
  \A p \in Procs :
    (/\ procs[p].kind = "sweep" /\ procs[p].pc = "lookup"
     /\ validateWebhookPayload(Payload(p))) =>
      /\ ShapeOf(procs[p].oi) = ShapeOf(ParseWebhook(Payload(p)))
      /\ EventView(procs[p].oi) = EventView(ParseWebhook(Payload(p)))

\* The raw status field of the shape an event was built from.
RawStatusOf(payload, oi) ==
  CASE ShapeOf(oi) = "A" -> payload.data.payment_status
    [] ShapeOf(oi) = "B" -> payload.status
    [] OTHER -> payload.order_info.status

\* The canonical status of every spelling of the raw statuses.
CanonicalOf(raw) ==
  CASE raw \in {"SUCCESS", "success", "Success", "COMPLETED", "completed",
                "PAID", "paid", "Paid"} -> "success"
    [] raw \in {"FAILED", "failed", "Failed", "DECLINED", "declined",
                "ERROR", "error"} -> "failed"
    [] raw \in {"USER_DROPPED", "user_dropped", "CANCELLED", "cancelled",
                "CANCELED", "canceled"} -> "cancelled"
    [] OTHER -> "pending"

\* C15: for every raw status (any letter case, empty included) and every
\* capture sub-status, mapGatewayStatus returns success, failed, cancelled
\* for the three fixed sets and pending for everything else, whatever the
\* capture sub-status; the status of every event built is that value.
C15_MapTotal ==
  /\ \A raw \in RawStatuses, cap \in Captures \cup {"SUCCESS"} :
       /\ mapGatewayStatus(raw, cap) = CanonicalOf(raw)
       /\ mapGatewayStatus(raw, cap) \in PaymentStatus
  /\ \A p \in Procs :
       procs[p].pc = "lookup" =>
         /\ procs[p].oi.status \in PaymentStatus
         /\ procs[p].oi.status = CanonicalOf(RawStatusOf(Payload(p), procs[p].oi))

\* A mixed-case SUCCESS that comes with a pending capture was mapped.
C15_Witness ==
  \E p \in Procs :
    /\ procs[p].kind = "webhook" /\ procs[p].pc = "lookup"
    /\ Payload(p).data.payment_status = "Success"
    /\ Payload(p).data.capture_status = "PENDING"
    /\ procs[p].oi.status = "success"

\* C16: the reconciliation goes on to write exactly when the order has no
\* record or its record is pending, and stops exactly when the record is
\* success, failed or cancelled, for every incoming status;
\* shouldUpdateStatus is that function of old alone.
C16_Guard ==
  /\ [](\A old \in PriorStatuses, new \in PaymentStatus :
          shouldUpdateStatus(old, new) <=> old \in {"", "pending"})
  /\ [][\A p \in Procs :
          (procs[p].pc = "readStatus" /\
           procs'[p].pc \in {"upsert", "close"}) =>
            LET e == FindOrderStatus(procs[p].order)
                old == IF e = 0 THEN "" ELSE orderStatuses[e].status IN
            /\ procs'[p].pc = "upsert" <=> old \in {"", "pending"}
            /\ procs'[p].pc = "close" <=> old \in Terminal]_vars

\* The guard has refused an event that carries the status the record has.
C16_Witness ==
  \E p \in Procs :
    /\ procs[p].pc = "close"
    /\ procs[p].result.previousStatus \in Terminal
    /\ procs[p].oi.status = procs[p].result.previousStatus

\* C17: processWebhook builds its event from the shape the classification
\* names (A: data; B: order_id or collect_request_id without data;
\* C: order_info alone), and a payload with none of the four fields goes to
\* the catch block with no event; when that handling returns, its entry is
\* failed, the response says success:false and no order or record changed.
C17_Classify ==
  [][\A p \in Procs :
       /\ (procs[p].kind = "webhook" /\ procs[p].pc = "created" /\
           procs'[p] # procs[p]) =>
            IF ClassOf(Payload(p)) = "none"
              THEN /\ procs'[p].pc = "catch"
                   /\ procs'[p].oi = NoOrderInfo
                   /\ procs'[p].error =
                        "Invalid webhook payload: missing required fields"
              ELSE /\ procs'[p].pc = "lookup"
                   /\ ShapeOf(procs'[p].oi) = ClassOf(Payload(p))
       /\ (procs[p].kind = "webhook" /\ procs[p].pc = "catch" /\
           ClassOf(Payload(p)) = "none" /\ procs'[p] # procs[p]) =>
            /\ procs'[p].pc = "returned"
            /\ procs'[p].resp.success = FALSE
            /\ ledger'[procs[p].wid].status = "failed"
            /\ orders' = orders /\ orderStatuses' = orderStatuses]_vars

\* A payload with order_info and a top-level reference was read as Shape B.
C17_Witness ==
  \E p \in Procs :
    /\ procs[p].kind = "webhook" /\ procs[p].pc = "lookup"
    /\ Payload(p).order_info.present /\ ~Payload(p).data.present
    /\ ShapeOf(procs[p].oi) = "B"

\* C18: the events processWebhook builds from the three payloads that
\* describe one payment (nested data, flat legacy, order_info envelope) have
\* the same order reference, status, order and transaction amount and mode.
C18_Claim ==
  \A p \in Procs, c \in Contents :
    (/\ procs[p].kind = "webhook" /\ procs[p].pc = "lookup"
     /\ Payload(p) \in {NestedData(c), FlatLegacy(c), Envelope(c)}) =>
      EventView(procs[p].oi) = EventView(ParseWebhook(FlatLegacy(c)))

\* The amount field a shape reads first, and the one it falls back to.
PrimaryAmount(payload, oi) ==
  IF ShapeOf(oi) = "C" THEN payload.order_info.order_amount
  ELSE payload.amount

FallbackAmount(payload, oi) ==
  IF ShapeOf(oi) = "C" THEN payload.order_info.amount
  ELSE payload.order_amount

\* C19: when the primary amount field of a payload is a non-numeric string
\* and its fallback field holds a positive number, the reconciliation of an
\* order that was found reports the fallback value as order amount and as
\* transaction amount.
C19_Claim ==
  \A p \in Procs :
    (/\ procs[p].kind = "webhook" /\ procs[p].pc = "close"
     /\ procs[p].order # ""
     /\ PrimaryAmount(Payload(p), procs[p].oi) = BadStr
     /\ FallbackAmount(Payload(p), procs[p].oi).t \in {"num", "str"}
     /\ FallbackAmount(Payload(p), procs[p].oi).v > 0) =>
      /\ procs[p].result.orderAmount =
           FallbackAmount(Payload(p), procs[p].oi).v
      /\ procs[p].result.transactionAmount =
           FallbackAmount(Payload(p), procs[p].oi).v

\* The first strictly positive value of a chain, 0 when there is none.
FirstPositive(chain) ==
  LET pos == {k \in 1..Len(chain) : chain[k] > 0} IN
  IF pos = {} THEN 0
  ELSE chain[CHOOSE k \in pos : \A j \in pos : k <= j]

\* C20: the order amount of every reconciliation of an order that was found
\* is the first strictly positive value of event order amount, event
\* transaction amount, order's stored amount (0 when none is), the
\* transaction amount likewise, and no record holds a negative amount.
C20_Claim ==
  /\ \A p \in Procs :
       (procs[p].pc = "close" /\ procs[p].order # "") =>
         LET oa == CastNumber(procs[p].oi.order_amount)
             ta == CastNumber(procs[p].oi.transaction_amount)
             stored == orders[procs[p].order].amount IN
         /\ procs[p].result.orderAmount = FirstPositive(<<oa, ta, stored>>)
         /\ procs[p].result.transactionAmount =
              FirstPositive(<<ta, oa, stored>>)
  /\ \A i \in Docs : /\ orderStatuses[i].order_amount >= 0
                     /\ orderStatuses[i].transaction_amount >= 0

\* The record the upsert of process p has just written.
WrittenRecord(p) ==
  IF procs[p].existing # 0 THEN orderStatuses[procs[p].existing]
  ELSE orderStatuses[Len(orderStatuses)]

\* The precedence chain of the claim, read on an object with mode fields.
ClaimedMode(src) ==
  OrS(src.payment_mode,
  OrS(src.data.payment_mode,
  OrS(src.payment_method,
  OrS(src.data.payment_method, "unknown"))))

\* The object the chain is read on: the payload for the nested-data and the
\* flat shape, the order_info envelope for the third shape.
ModeSource(payload, oi) ==
  IF ShapeOf(oi) = "C"
    THEN [payment_mode |-> payload.order_info.payment_mode,
          payment_method |-> payload.order_info.payment_method,
          data |-> NoData]
    ELSE payload

\* C21 as stated: for every payload the mode stored in the record is the
\* payload's root payment_mode, else data.payment_mode, else the root, then
\* the nested payment_method, else "unknown", and no record has an empty mode.
C21_Claim ==
  /\ \A p \in Procs :
       (procs[p].pc = "meta" /\ procs[p].kind \in {"webhook", "sweep"}) =>
         WrittenRecord(p).payment_mode = ClaimedMode(Payload(p))
  /\ \A i \in Docs : orderStatuses[i].payment_mode # ""

\* C21 (amended): the mode stored in the record follows the chain root
\* payment_mode, nested data.payment_mode, root payment_method, nested
\* payment_method, "unknown", read on the payload for the nested-data and flat
\* shapes and on order_info for the envelope shape; it is never empty.
C21_Precedence ==
  /\ \A p \in Procs :
       (procs[p].pc = "meta" /\ procs[p].kind \in {"webhook", "sweep"}) =>
         WrittenRecord(p).payment_mode =
           ClaimedMode(ModeSource(Payload(p), procs[p].oi))
  /\ \A i \in Docs : orderStatuses[i].payment_mode # ""

\* A record was written from a payload whose only mode fields are the two
\* payment_method aliases, and it holds the root-level one.
C21_Witness ==
  \E p \in Procs :
    /\ procs[p].pc = "meta" /\ procs[p].kind = "webhook"
    /\ Payload(p).payment_mode = "" /\ Payload(p).data.payment_mode = ""
    /\ Payload(p).payment_method = "netbanking"
    /\ Payload(p).data.payment_method = "wallet"
    /\ WrittenRecord(p).payment_mode = "netbanking"

C26_Claim ==
  [][\A p \in Procs :
       (procs[p].pc = "meta" /\ procs'[p].pc # "meta") =>
         /\ procs'[p].pc = "close"
         /\ procs'[p].result.status = WrittenRecord(p).status]_vars

\* The guard refused the event process p carries: a record existed when p
\* read it and its status did not admit the event's status.
GuardRejected(p) ==
  /\ procs[p].order # "" /\ procs[p].existing # 0
  /\ ~shouldUpdateStatus(procs[p].prev,
        mapGatewayStatus(procs[p].oi.status, procs[p].oi.capture_status))

\* C27: when the guard refuses an event, the step that decides it writes
\* neither a record nor an order and yields a result whose status and
\* previousStatus are both the stored status; the handling then closes
\* without touching records or orders, the webhook answers success:true with
\* that status, and the ledger entry ends processed (for a sweep as well).
C27_SoftNoOp ==
  [][\A p \in Procs :
       /\ (procs[p].pc = "readStatus" /\ procs'[p].pc = "close") =>
            /\ GuardRejected(p)'
            /\ orders' = orders /\ orderStatuses' = orderStatuses
            /\ procs'[p].result.status = orderStatuses[procs'[p].existing].status
            /\ procs'[p].result.previousStatus = procs'[p].result.status
       /\ (procs[p].pc = "close" /\ GuardRejected(p) /\ procs'[p] # procs[p]) =>
            /\ orders' = orders /\ orderStatuses' = orderStatuses
            /\ ledger'[procs[p].wid].status = "processed"
            /\ procs[p].kind = "webhook" =>
                 /\ procs'[p].pc = "returned" /\ procs'[p].resp.success
                 /\ procs'[p].resp.status = procs[p].prev
                 /\ procs'[p].resp.previousStatus = procs[p].prev]_vars

\* A webhook asking for another status than the terminal one stored was
\* answered success:true with the stored status, and its entry is processed.
C27_Witness ==
  \E p \in Procs :
    /\ procs[p].kind = "webhook" /\ procs[p].pc = "returned"
    /\ procs[p].resp.success
    /\ procs[p].resp.previousStatus \in Terminal
    /\ procs[p].resp.status = procs[p].resp.previousStatus
    /\ ledger[procs[p].wid].status = "processed"
    /\ LET oi == ParseWebhook(ledger[procs[p].wid].payload) IN
         mapGatewayStatus(oi.status, oi.capture_status) # procs[p].resp.status
    /\ \E i \in Docs : orderStatuses[i].status = procs[p].resp.status

\* C28: the ledger only grows, and only by the one pending entry a
\* processWebhook call creates as its first step; a call that normalizes or
\* reconciles holds the entry it created; no step of a sweep adds an entry;
\* the payload of an existing entry never changes.
C28_AppendMostly ==
  [][/\ Len(ledger') >= Len(ledger)
     /\ \A i \in Entries : ledger'[i].payload = ledger[i].payload
     /\ Len(ledger') > Len(ledger) =>
          /\ Len(ledger') = Len(ledger) + 1
          /\ ledger'[Len(ledger')].status = "pending"
          /\ \E p \in Procs :
               /\ procs[p].pc \in Rest
               /\ procs'[p].kind = "webhook" /\ procs'[p].pc = "created"
               /\ procs'[p].wid = Len(ledger')
     /\ \A p \in Procs :
          /\ (procs'[p].kind = "webhook" /\ procs'[p].pc = "created"
              /\ procs[p].pc \in Rest) => Len(ledger') = Len(ledger) + 1
          /\ (procs[p].kind = "webhook" /\ procs[p].pc \notin Rest) =>
               procs[p].wid \in Entries
          /\ procs'[p].kind = "sweep" => Len(ledger') = Len(ledger)]_vars

\* Two webhooks were recorded; the first entry went through a failed handling
\* and a sweep that closed it as processed, and still holds its payload.
C28_Witness ==
  /\ Len(ledger) = 2
  /\ ledger[1].status = "processed" /\ ledger[1].retry_count >= 1
  /\ ledger[1].payload = ShapeA("ORD_1", "SUCCESS", Str(500), "upi")
  /\ ledger[2].status = "failed"

\* The orders a reference matches on one of the fields the claim lists.
MatchesOf(ref) ==
  {o \in OrderIds : \/ orders[o].custom_order_id = ref
                    \/ orders[o].collectRequestId = ref
                    \/ (IsValidObjectId(ref) /\ orders[o]._id = ref)}

\* C30: the lookup of the reconciliation finds an order exactly when some
\* order matches the event's reference on custom_order_id, on the cached
\* provider identifier or, for a valid identifier, on the primary key; the
\* order it yields is one of those, and otherwise it reports not found.
C30_Claim ==
  [][\A p \in Procs :
       (procs[p].pc = "lookup" /\ procs'[p].pc \in {"readStatus", "close"}) =>
         LET matches == MatchesOf(procs[p].oi.order_id) IN
         /\ procs'[p].pc = "readStatus" <=> matches # {}
         /\ procs'[p].pc = "readStatus" => procs'[p].order \in matches
         /\ procs'[p].pc = "close" =>
              procs'[p].result.status = "order_not_found"]_vars

\* C24: the order-status collection changes only in the upsert step of a
\* reconciliation, and the ledger only in a step of a webhook handling or of
\* a retry sweep.
C24_Claim ==
  [][/\ orderStatuses' # orderStatuses =>
          \E p \in Procs : /\ procs[p].pc = "upsert"
                           /\ procs'[p].pc = "meta"
     /\ ledger' # ledger =>
          \E p \in Procs : /\ procs'[p] # procs[p]
                           /\ procs'[p].kind \in {"webhook", "sweep"}]_vars

\* C29: a sweep that starts selects every failed entry below the retry
\* ceiling, those another running sweep holds included; nothing excludes two
\* sweeps from reprocessing the same entry.
C29_NoExclusion ==
  [][\A p \in Procs :
       (procs[p].pc \in Rest /\ procs'[p].kind = "sweep"
        /\ procs'[p].pc = "sweep_next") =>
         \A i \in Entries :
           (ledger[i].status = "failed" /\ ledger[i].retry_count < RetryCeiling)
             => \E k \in 1..Len(procs'[p].queue) : procs'[p].queue[k].id = i]_vars

\* Two sweeps selected the same failed entry for the same attempt and each
\* reconciled it: one has closed it as processed, the other is about to.
C29_Witness ==
  \E p, q \in Procs :
    /\ p # q
    /\ procs[p].kind = "sweep" /\ procs[p].pc = "close"
    /\ procs[q].kind = "sweep" /\ procs[q].pc = "sweep_next"
    /\ procs[p].wid \in procs[q].seen
    /\ procs[p].order # ""
    /\ ledger[procs[p].wid].status = "processed"
    /\ ledger[procs[p].wid].retry_count = procs[p].rc0 + 1

\* Process p has just answered (or left) a status query in this step.
QueryStep(p) ==
  /\ procs'[p] # procs[p]
  /\ procs'[p].kind \in {"orderStatus", "paymentStatus"}

\* The records of the orders a reference resolves to.
RecordsOf(ref) ==
  {i \in Docs : orderStatuses[i].collect_id \in MatchesOf(ref)}

\* C22: a status query whose reference resolves to an order that has a
\* record answers with the status, the amounts and the payment mode stored
\* in a record of that order, whichever of the two queries is asked.
C22_Claim ==
  [][\A p \in Procs :
       (QueryStep(p) /\ ~procs'[p].faulted
        /\ RecordsOf(procs'[p].oi.order_id) # {}) =>
         /\ procs'[p].pc = "returned"
         /\ \E i \in RecordsOf(procs'[p].oi.order_id) :
              /\ procs'[p].view.status = orderStatuses[i].status
              /\ procs'[p].view.paymentMode = orderStatuses[i].payment_mode
              /\ IF procs'[p].kind = "orderStatus"
                   THEN /\ procs'[p].view.orderAmount =
                             orderStatuses[i].order_amount
                        /\ procs'[p].view.transactionAmount =
                             orderStatuses[i].transaction_amount
                   ELSE procs'[p].view.amount =
                          orderStatuses[i].transaction_amount]_vars

\* C23: a status query that meets no store failure never leaves by
\* exception; for a reference that resolves to no order getOrderStatus
\* answers order_not_found, and for an order without a record it answers
\* unknown or pending.
C23_Claim ==
  [][\A p \in Procs :
       (QueryStep(p) /\ ~procs'[p].faulted
        /\ RecordsOf(procs'[p].oi.order_id) = {}) =>
         /\ procs'[p].pc = "returned"
         /\ procs'[p].kind = "orderStatus" =>
              IF MatchesOf(procs'[p].oi.order_id) = {}
                THEN procs'[p].view.status = "order_not_found"
                ELSE procs'[p].view.status \in {"unknown", "pending"}]_vars

\* C31: a sweep takes up an entry for reprocessing only when the entry's
\* next_retry_at does not lie in the future.
C31_Claim ==
  [][\A p \in Procs :
       (procs[p].pc = "sweep_next" /\ procs'[p].pc = "lookup") =>
         ledger[procs'[p].wid].next_retry_at = 0]_vars

\* C32: an entry whose payload matches none of the known shapes is never
\* processed, and no step of a sweep that is reprocessing such an entry
\* changes the order-status collection.
C32_Claim ==
  [][/\ \A i \in Entries :
          ClassOf(ledger[i].payload) = "none" => ledger'[i].status # "processed"
     /\ \A p \in Procs :
          (/\ procs[p].kind = "sweep" /\ procs[p].pc \notin Rest
           /\ procs[p].pc # "sweep_next"
           /\ ClassOf(ledger[procs[p].wid].payload) = "none"
           /\ procs'[p] # procs[p]) =>
            orderStatuses' = orderStatuses]_vars

\* The capture sub-status of the shape an event was built from.
CaptureOf(payload, oi) ==
  CASE ShapeOf(oi) = "A" -> payload.data.capture_status
    [] ShapeOf(oi) = "B" -> ""
    [] OTHER -> payload.order_info.capture_status

\* C33: for every raw status and capture sub-status the mapper of
\* WebhooksService and the private mapper of PaymentsService agree, and the
\* status of every event built is the one the private mapper gives.
C33_Claim ==
  /\ \A raw \in RawStatuses, cap \in Captures :
       mapGatewayStatus(raw, cap) = PaymentsMapGatewayStatus(raw, cap)
  /\ \A p \in Procs :
       procs[p].pc = "lookup" =>
         procs[p].oi.status =
           PaymentsMapGatewayStatus(RawStatusOf(Payload(p), procs[p].oi),
                                    CaptureOf(Payload(p), procs[p].oi))

\* No call is running.
Quiet == \A p \in Procs : procs[p].pc \in Rest

\* The entries whose event names an order that exists.
Delivered ==
  {i \in Entries : MatchesOf(ParseRetry(ledger[i].payload).order_id) # {}}

\* The terminal statuses among the events delivered.
TerminalsDelivered ==
  {ParseRetry(ledger[i].payload).status : i \in Delivered} \cap Terminal

\* C34: when every webhook received has been handled to the end (every entry
\* processed) and the events delivered for the order carry at most one
\* terminal status, the order has one record and its status is that
\* terminal status, or pending if there is none, in whatever order the
\* events came.
C34_OrderIndependent ==
  (/\ Quiet
   /\ \A i \in Entries : ledger[i].status = "processed"
   /\ Delivered # {}
   /\ Cardinality(TerminalsDelivered) <= 1) =>
     /\ Len(orderStatuses) = 1
     /\ orderStatuses[1].status =
          IF TerminalsDelivered = {} THEN "pending"
          ELSE CHOOSE t \in TerminalsDelivered : TRUE

\* A success came first and a pending event for the same order after it;
\* both were handled at once and the record is success.
C34_Witness ==
  /\ Quiet /\ Len(ledger) = 2
  /\ ledger[1].payload = ShapeA("ORD_1", "SUCCESS", Str(500), "upi")
  /\ ledger[2].payload = ShapeB("CR_1", "PENDING", Undef, "")
  /\ \A i \in Entries : ledger[i].status = "processed" /\ ledger[i].retry_count = 0
  /\ Len(orderStatuses) = 1 /\ orderStatuses[1].status = "success"

\* C35: the step in which a status query answers leaves the orders, the
\* order-status collection and the ledger as they were.
C35_Claim ==
  [][\A p \in Procs :
       QueryStep(p) =>
         /\ orders' = orders
         /\ orderStatuses' = orderStatuses
         /\ ledger' = ledger]_vars

\* C37: an entry that is processed stays processed in every step, whichever
\* sweep takes the step.
C37_Absorbing ==
  [][\A i \in Entries :
       ledger[i].status = "processed" => ledger'[i].status = "processed"]_vars

\* An entry is processed while another sweep, which selected it before, has
\* failed on it and is about to record that failure.
C37_Witness ==
  \E p \in Procs :
    /\ procs[p].kind = "sweep" /\ procs[p].pc = "catch"
    /\ ledger[procs[p].wid].status = "processed"

\* C38: in every step each entry's retry_count stays within 0..3 and does
\* not decrease, and it changes only in a step of a sweep holding the entry.
C38_Claim ==
  [][\A i \in Entries :
       /\ ledger'[i].retry_count \in 0..RetryCeiling
       /\ ledger'[i].retry_count >= ledger[i].retry_count
       /\ ledger'[i].retry_count # ledger[i].retry_count =>
            \E p \in Procs : procs[p].kind = "sweep" /\ procs[p].wid = i]_vars

\* C39: in the step in which processWebhook returns, the response has
\* success true exactly when the entry it created is processed, and success
\* false exactly when that entry is failed with the response's message as
\* its error_message.
C39_Agrees ==
  [][\A p \in Procs :
       (/\ procs[p].kind = "webhook" /\ procs[p].pc \in {"close", "catch"}
        /\ procs'[p].pc = "returned") =>
         LET e == ledger'[procs'[p].wid]
             r == procs'[p].resp
         IN /\ r.success <=> e.status = "processed"
            /\ ~r.success <=>
                 (e.status = "failed" /\ e.error_message = r.message)]_vars

\* processWebhook has answered success:false with the validation message and
\* its entry is failed with that message.
C39_Witness ==
  \E p \in Procs :
    /\ procs[p].kind = "webhook" /\ procs[p].pc = "returned"
    /\ ~procs[p].resp.success
    /\ procs[p].resp.message =
         "Invalid webhook payload: missing required fields"
    /\ ledger[procs[p].wid].status = "failed"
    /\ ledger[procs[p].wid].error_message = procs[p].resp.message

\* C40: mapping the output of mapGatewayStatus again gives the same status,
\* for every raw status and capture sub-status; and the record written after
\* the two normalizations of the webhook path carries the status one
\* normalization of the payload's raw status gives.
C40_Idempotent ==
  /\ \A raw \in RawStatuses, cap \in Captures, cap2 \in Captures :
       mapGatewayStatus(mapGatewayStatus(raw, cap), cap2) =
         mapGatewayStatus(raw, cap)
  /\ \A p \in Procs :
       procs[p].pc = "meta" =>
         WrittenRecord(p).status =
           mapGatewayStatus(RawStatusOf(Payload(p), procs[p].oi),
                            CaptureOf(Payload(p), procs[p].oi))

\* A webhook whose raw status is a lower-case cancellation has been written
\* as cancelled after both normalizations.
C40_Witness ==
  \E p \in Procs :
    /\ procs[p].kind = "webhook" /\ procs[p].pc = "meta"
    /\ RawStatusOf(Payload(p), procs[p].oi) \in {"cancelled", "user_dropped"}
    /\ procs[p].oi.status = "cancelled"
    /\ WrittenRecord(p).status = "cancelled"

Closed(i) == ledger[i].status \in {"processed", "failed"}

\* A retry sweep is running.
SweepRuns ==
  \E p \in Procs : procs[p].kind = "sweep" /\ procs[p].pc = "sweep_next"

\* C36: every ledger entry eventually is processed or failed; whenever a
\* handling has returned, its entry is processed or failed; and if retry
\* sweeps run again and again, every failed entry eventually is processed
\* or has retry_count 3.
C36_EventuallyClosed ==
  /\ \A i \in 1..MaxLedger :
       (i <= Len(ledger)) ~> (i <= Len(ledger) /\ Closed(i))
  /\ [](\A p \in Procs :
          (procs[p].kind = "webhook" /\ procs[p].pc = "returned") =>
            Closed(procs[p].wid))
  /\ ([]<>SweepRuns) =>
       \A i \in 1..MaxLedger :
         (i <= Len(ledger) /\ ledger[i].status = "failed") ~>
           (i <= Len(ledger) /\ (\/ ledger[i].status = "processed"
                                 \/ ledger[i].retry_count = RetryCeiling))

\* Three sweeps have failed on an entry, which is failed with retry_count 3,
\* and a webhook received afterwards has returned with its entry processed.
C36_Witness ==
  /\ Len(ledger) = 2
  /\ ledger[1].status = "failed" /\ ledger[1].retry_count = RetryCeiling
  /\ \E p \in Procs :
       /\ procs[p].kind = "webhook" /\ procs[p].pc = "returned"
       /\ procs[p].wid = 2 /\ ledger[2].status = "processed"

====
